---- MODULE Spec2Model ----
(***************************************************************************)
(* Job dispatch and streaming pipeline of CodePlanner:                     *)
(*   client <-> Gateway (packages/gateway/src/server.ts, redis.ts)         *)
(*          <-> Redis pub/sub (jobs:pending, results:<jobId>)              *)
(*          <-> Worker (engine main worker, CodePlannerWorker)             *)
(*                                                                         *)
(* Redis pub/sub is modelled by what it does: a PUBLISH reaches exactly    *)
(* the subscriptions that are active when the broker executes it, in       *)
(* publication order per subscriber, and is dropped when there is none.    *)
(* A result's timestamp (Date.now()) is not forwarded by the Gateway and   *)
(* is left out of the envelopes.                                           *)
(*                                                                         *)
(* The engine's components each have a specification of their own over the *)
(* same initial state:                                                     *)
(*   SpecFanOut   the pipeline with a result delivered to every listener   *)
(*   SpecIndex    handleIndex and the vector store's project index         *)
(*   SpecLimiter  QueuedRateLimiter (utils/rate-limiter.ts) and its clock  *)
(*   SpecFutures  the limiter with the promises of its tasks, under weak   *)
(*                fairness of the timer callback and of task settlement    *)
(*   SpecCalls    the handlers' provider calls and withRateLimitRetry      *)
(*   SpecSearch   searchSimilar and cosineSimilarity                       *)
(*   SpecStore    RedisVectorStore's chunk hashes and project index set    *)
(*   SpecRetry    generatePlan's attempts as tasks of the limiter's queue  *)
(***************************************************************************)
EXTENDS Integers, Sequences, FiniteSets, TLC

---------------------------------------------------------------------------
(* Bounds of the model *)

\* connections that are ever opened
MaxConns == 2
\* job ids that crypto.randomUUID() can hand out
MaxJobs == 2
\* inbound client messages, valid or not
MaxMsgs == 2
\* stream results one handler run publishes
MaxChunks == 2
\* broker calls (publish, subscribe) that are rejected
MaxFaults == 1

\* sendError's jobId: 'unknown'
UnknownJobId == 0
\* no callback registered for a result channel
NoConn == 0

Conns == 1..MaxConns
JobIds == 1..MaxJobs
\* handler runs of the Worker, one per envelope it takes from jobs:pending
Runs == 1..MaxMsgs

\* what a client can write on its socket: text that is no JSON, a JSON
\* message without "data", or a request whose data.command is one of the
\* three commands or is missing
Garbage == {"garbage", "nodata"}
Requests == {"index", "plan", "analyze-error", "none"}
Inbound == Garbage \cup Requests

Data(kind, n) == [kind |-> kind, n |-> n]

---------------------------------------------------------------------------
VARIABLES
  \* ---- Gateway
  connections,   \* keys of CodePlannerGateway.connections
  socket,        \* readyState of each ServerWebSocket: "new", "open", "closed"
  inbound,       \* log of the inbound messages the message handler has taken
  gpc,           \* position of the message handler that created job j
  listener,      \* results:<jobId> -> connection captured by the callback
  subscribeCalls,\* SUBSCRIBE results:<jobId> commands the broker accepted
  handled,       \* results handed to handleJobResult, per job
  wire,          \* messages transmitted on each connection, in order
  \* ---- broker
  envelopes,     \* every envelope the broker accepted on jobs:pending
  inbox,         \* results delivered to the Gateway's subscriber, per channel
  dropped,       \* results published while the channel had no subscriber
  faults,        \* broker calls rejected so far
  \* ---- Worker
  taken,         \* envelopes the jobs:pending listener has been called with
  wstate,        \* handler run r: "none", "running", "done"
  emitted,       \* results run r passed to redis.publish, in order
  raised         \* the command handler of run r threw

VARIABLES
  \* ---- vector store (Redis keys of project user1/project1)
  projectIndex,  \* members of the project's index set
  chunkKeys,     \* chunk id -> index job that wrote the chunk's hash, 0: no key
  \* ---- handleIndex runs and searchSimilar calls on that project
  ijob,          \* index run k: position, chunk count, locals
  ipublished,    \* results index run k passed to publishResult, in order
  overlapped,    \* index run k was active together with another index run
  searchPc,      \* searchSimilar: "idle", "fetch"
  searchIds,     \* chunkIds read by searchSimilar
  searchLog      \* what each finished searchSimilar call read

VARIABLES
  \* ---- QueuedRateLimiter (the engine's singleton) and its clock
  requestsPerMinute, \* 0: getRateLimiter has not been called yet
  intervalMs,
  queue,         \* ids of the queued tasks, oldest first
  isRunning,
  timer,         \* time at which the interval timer is next due, 0: no timer
  lastRunAt,     \* -1: null
  now,           \* Date.now(), in ms since the process started
  issued,        \* schedule calls made so far
  starts,        \* [id, at] of every task dispatched, in order
  lateTicks,     \* timer callbacks that ran later than they were due
  waits,         \* idle periods that have passed
  constructed,   \* QueuedRateLimiter objects built so far
  obtained,      \* getRateLimiter calls made so far
  future         \* promise schedule returned for task id: "none" (no such
                 \* call yet), "pending", "running", "resolved", "rejected"

\* Outbound calls of the job handlers and the backoff wrapper of plan
\* generation
VARIABLES
  hjob,          \* the job whose handler ran last: [cmd, pc, attempt,
                 \* invocations, err, delay, streamErr]; pc "failed": processJob
                 \* caught an error, "done": the handler returned
  hjobs,         \* jobs the Worker has taken so far
  hresults,      \* results published, in order: [job, type, message]
  outbound       \* provider calls made: [job, kind, via]

\* searchSimilar as a function of the stored embeddings, the query vector
\* and the limit
VARIABLES
  sPc,           \* "empty": nothing stored, "indexed", "searched": a
                 \* search of the index has returned
  sIndex,        \* chunks of the project's index per embedding
  sQuery,        \* queryEmbedding of the last search
  sLimit,        \* limit of the last search
  sResult        \* what the last search returned: [embedding, similarity]

\* The operations of RedisVectorStore on one project, called one after
\* the other, with storage calls that can fail
VARIABLES
  stHash,        \* per chunk id, its hash: "none", "embedded" (it has an
                 \* embedding field), "bare" (it has none)
  stSet,         \* the members of the project's index set
  stOps,         \* operations called so far
  stLast,        \* the operation that ended last: [op, failed, outcome,
                 \* count, found]; failed: a storage call of it failed
  stPrev         \* the operation before it

\* The plan generation's attempts as tasks of the limiter
VARIABLE
  hsubmits       \* schedule calls of withRateLimitRetry, in order: [task,
                 \* ahead, attempt]; ahead: the queue the call found

gatewayVars ==
  <<connections, socket, inbound, gpc, listener, subscribeCalls, handled, wire>>
brokerVars  == <<envelopes, inbox, dropped, faults>>
workerVars  == <<taken, wstate, emitted, raised>>
pipelineVars == <<gatewayVars, brokerVars, workerVars>>
indexVars ==
  <<projectIndex, chunkKeys, ijob, ipublished, overlapped, searchPc,
    searchIds, searchLog>>
limiterVars ==
  <<requestsPerMinute, intervalMs, queue, isRunning, timer, lastRunAt, now,
    issued, starts, lateTicks, waits, constructed, obtained, future>>
callsVars == <<hjob, hjobs, hresults, outbound>>
searchVars == <<sPc, sIndex, sQuery, sLimit, sResult>>
storeVars == <<stHash, stSet, stOps, stLast, stPrev>>
retryVars == <<hsubmits>>
engineVars ==
  <<indexVars, limiterVars, callsVars, searchVars, storeVars, retryVars>>
vars == <<pipelineVars, engineVars>>

---------------------------------------------------------------------------
(* Helpers *)

Min(S) == CHOOSE x \in S : \A y \in S : x <= y

RECURSIVE Filter(_, _, _)
\* the messages of sequence s that carry jobId j, in order (f = "jobId")
Filter(s, j, f) ==
  IF s = <<>> THEN <<>>
  ELSE IF Head(s)[f] = j THEN <<Head(s)>> \o Filter(Tail(s), j, f)
       ELSE Filter(Tail(s), j, f)

RECURSIVE CountType(_, _)
CountType(s, t) ==
  IF s = <<>> THEN 0
  ELSE (IF Head(s).type = t THEN 1 ELSE 0) + CountType(Tail(s), t)

Terminal(t) == t \in {"complete", "error"}
Terminals(s) == CountType(s, "complete") + CountType(s, "error")

\* envelopes delivered to the Worker's jobs:pending listener and not yet taken
jobsPending == SubSeq(envelopes, taken + 1, Len(envelopes))

---------------------------------------------------------------------------
(* Gateway: packages/gateway/src/server.ts, redis.ts *)

\* crypto.randomUUID(): a value no earlier call returned. The model hands out
\* JobIds in increasing order (the ids are interchangeable).
RandomUUIDSame(used) == Min(JobIds)
RandomUUID(used) == Min(JobIds \ used)

UsedJobIds == {inbound[i].jobId : i \in 1..Len(inbound)} \ {UnknownJobId}

\* ServerWebSocket.send: transmits on an open socket; on a closed socket the
\* runtime drops the message and returns 0 (it does not throw)
WsSendAlways(w, c, msg) == [w EXCEPT ![c] = Append(@, msg)]
WsSend(w, c, msg) ==
  IF socket[c] = "open" THEN [w EXCEPT ![c] = Append(@, msg)] ELSE w

\* sendError(ws, message)
ErrorMessage(text) ==
  [type |-> "error", jobId |-> UnknownJobId, data |-> Data(text, 0)]
SendErrorNone(w, c, text) == w
SendError(w, c, text) == WsSend(w, c, ErrorMessage(text))

\* msg.data.command || 'unknown'
CommandOf(req) == IF req = "none" THEN "unknown" ELSE req

\* the JobMessage built by the message handler
JobMessage(jobId, c, req) ==
  [jobId |-> jobId, connectionId |-> c, command |-> CommandOf(req)]

\* the WSMessage handleJobResult builds from a result
ToWSMessageFixed(result) ==
  [type  |-> IF result.type = "complete" THEN "response"
             ELSE IF result.type = "error" THEN "error" ELSE "stream",
   jobId |-> result.jobId,
   data  |-> result.data]
ToWSMessage(result) ==
  [type  |-> IF result.type = "complete" THEN "response" ELSE "stream",
   jobId |-> result.jobId,
   data  |-> result.data]

\* handleJobResult: the result types after which it unsubscribes
UnsubscribesOn(result) == result.type = "complete"

\* websocket.open
GwOpen ==
  /\ \E c \in Conns : socket[c] = "new"
  /\ LET c == Min({x \in Conns : socket[x] = "new"}) IN
       /\ socket' = [socket EXCEPT ![c] = "open"]
       /\ connections' = connections \cup {c}
  /\ UNCHANGED <<inbound, gpc, listener, subscribeCalls, handled, wire,
                 brokerVars, workerVars>>

\* websocket.close
GwCloseCancel(c) ==
  /\ socket[c] = "open"
  /\ socket' = [socket EXCEPT ![c] = "closed"]
  /\ connections' = connections \ {c}
  /\ wstate' = [r \in Runs |->
                  IF r <= Len(envelopes) /\ envelopes[r].connectionId = c
                     /\ wstate[r] = "running"
                  THEN "done" ELSE wstate[r]]
  /\ UNCHANGED <<inbound, gpc, listener, subscribeCalls, handled, wire,
                 brokerVars, taken, emitted, raised>>
GwClose(c) ==
  /\ socket[c] = "open"
  /\ socket' = [socket EXCEPT ![c] = "closed"]
  /\ connections' = connections \ {c}
  /\ UNCHANGED <<inbound, gpc, listener, subscribeCalls, handled, wire,
                 brokerVars, workerVars>>

\* websocket.message, up to the end of `await this.redis.publishJob(job)`;
\* ok: the broker accepts the PUBLISH (publishJob throws otherwise)
GwMessage(c, req, ok) ==
  /\ socket[c] = "open"
  /\ Len(inbound) < MaxMsgs
  /\ ok \/ faults < MaxFaults
  /\ IF req \in Garbage
     THEN \* JSON.parse or msg.data.command throws: catch, sendError
          /\ ok
          /\ inbound' = Append(inbound,
                 [conn |-> c, jobId |-> UnknownJobId])
          /\ wire' = SendError(wire, c, "Invalid message format")
          /\ UNCHANGED <<gpc, envelopes, faults>>
     ELSE /\ JobIds \ UsedJobIds # {}
          /\ LET jobId == RandomUUID(UsedJobIds)
                 job == JobMessage(jobId, c, req)
             IN /\ inbound' = Append(inbound,
                       [conn |-> c, jobId |-> jobId])
                /\ IF ok
                   THEN /\ envelopes' = Append(envelopes, job)
                        /\ gpc' = [gpc EXCEPT ![jobId] = "published"]
                        /\ UNCHANGED <<wire, faults>>
                   ELSE /\ gpc' = [gpc EXCEPT ![jobId] = "failed"]
                        /\ wire' = SendError(wire, c, "Invalid message format")
                        /\ faults' = faults + 1
                        /\ UNCHANGED envelopes
  /\ UNCHANGED <<connections, socket, listener, subscribeCalls, handled,
                 inbox, dropped, workerVars>>

\* the connection whose message handler created job j
OwnerOfFirst(j) == Min(Conns)
OwnerOf(j) ==
  LET i == CHOOSE i \in 1..Len(inbound) : inbound[i].jobId = j
  IN inbound[i].conn

\* websocket.message, `await this.redis.subscribeToResults(jobId, callback)`;
\* ok: the broker accepts the SUBSCRIBE (subscribeToResults throws otherwise)
GwSubscribe(j, ok) ==
  /\ gpc[j] = "published"
  /\ ok \/ faults < MaxFaults
  /\ IF ok
     THEN /\ listener' = [listener EXCEPT ![j] = OwnerOf(j)]
          /\ subscribeCalls' = [subscribeCalls EXCEPT ![j] = @ + 1]
          /\ gpc' = [gpc EXCEPT ![j] = "subscribed"]
          /\ UNCHANGED <<wire, faults>>
     ELSE /\ gpc' = [gpc EXCEPT ![j] = "failed"]
          /\ wire' = SendError(wire, OwnerOf(j), "Invalid message format")
          /\ faults' = faults + 1
          /\ UNCHANGED <<listener, subscribeCalls>>
  /\ UNCHANGED <<connections, socket, inbound, handled, envelopes, inbox,
                 dropped, workerVars>>

\* the subscriber's listener for results:<j>: JSON.parse, callback,
\* handleJobResult(ws, result)
HandleJobResultLast(j) ==
  /\ listener[j] # NoConn
  /\ inbox[j] # <<>>
  /\ LET result == inbox[j][Len(inbox[j])] IN
       /\ inbox' = [inbox EXCEPT ![j] = SubSeq(@, 1, Len(@) - 1)]
       /\ handled' = [handled EXCEPT ![j] = Append(@, result)]
       /\ wire' = WsSend(wire, listener[j], ToWSMessage(result))
       /\ listener' = IF UnsubscribesOn(result)
                      THEN [listener EXCEPT ![j] = NoConn] ELSE listener
  /\ UNCHANGED <<connections, socket, inbound, gpc, subscribeCalls,
                 envelopes, dropped, faults, workerVars>>
HandleJobResult(j) ==
  /\ listener[j] # NoConn
  /\ inbox[j] # <<>>
  /\ LET result == Head(inbox[j]) IN
       /\ inbox' = [inbox EXCEPT ![j] = Tail(@)]
       /\ handled' = [handled EXCEPT ![j] = Append(@, result)]
       /\ wire' = WsSend(wire, listener[j], ToWSMessage(result))
       /\ listener' = IF UnsubscribesOn(result)
                      THEN [listener EXCEPT ![j] = NoConn] ELSE listener
  /\ UNCHANGED <<connections, socket, inbound, gpc, subscribeCalls,
                 envelopes, dropped, faults, workerVars>>

---------------------------------------------------------------------------
(* Worker: CodePlannerWorker *)

\* redis.publish(`results:${jobId}`, message) as the broker executes it
Deliver(box, j, result) ==
  IF listener[j] # NoConn THEN [box EXCEPT ![j] = Append(@, result)] ELSE box
Drop(box, j, result) ==
  IF listener[j] # NoConn THEN box ELSE [box EXCEPT ![j] = Append(@, result)]

\* publishResult(jobId, {type, data}) by run r; ok: the broker accepts the
\* PUBLISH (a rejection is caught and logged by publishResult)
PublishResult(r, type, data, ok) ==
  LET j == envelopes[r].jobId
      result == [jobId |-> j, type |-> type, data |-> data]
  IN /\ ok \/ faults < MaxFaults
     /\ emitted' = [emitted EXCEPT ![r] = Append(@, result)]
     /\ IF ok
        THEN /\ inbox' = Deliver(inbox, j, result)
             /\ dropped' = Drop(dropped, j, result)
             /\ UNCHANGED faults
        ELSE /\ faults' = faults + 1
             /\ UNCHANGED <<inbox, dropped>>

HandlersAny == {"index", "plan", "analyze-error", "unknown"}
Handlers == {"index", "plan", "analyze-error"}

\* the jobs:pending listener: JSON.parse, processJob up to the first await
\* of the handler; an unknown command throws at once and processJob's catch
\* publishes the error
WorkerReceiveSerial(ok) ==
  /\ jobsPending # <<>>
  /\ \A q \in Runs : wstate[q] # "running"
  /\ LET r == taken + 1 IN
       /\ taken' = r
       /\ IF envelopes[r].command \in Handlers
          THEN /\ ok
               /\ wstate' = [wstate EXCEPT ![r] = "running"]
               /\ UNCHANGED <<emitted, inbox, dropped, faults, raised>>
          ELSE /\ wstate' = [wstate EXCEPT ![r] = "done"]
               /\ PublishResult(r, "error", Data("Unknown command", 0), ok)
               /\ UNCHANGED raised
  /\ UNCHANGED <<gatewayVars, envelopes>>
WorkerReceive(ok) ==
  /\ jobsPending # <<>>
  /\ LET r == taken + 1 IN
       /\ taken' = r
       /\ IF envelopes[r].command \in Handlers
          THEN /\ ok
               /\ wstate' = [wstate EXCEPT ![r] = "running"]
               /\ UNCHANGED <<emitted, inbox, dropped, faults, raised>>
          ELSE /\ wstate' = [wstate EXCEPT ![r] = "done"]
               /\ PublishResult(r, "error", Data("Unknown command", 0), ok)
               /\ UNCHANGED raised
  /\ UNCHANGED <<gatewayVars, envelopes>>

Streams(r) == CountType(emitted[r], "stream")

\* handleIndex: publishProgress before each batch;
\* handlePlan, handleErrorAnalysis: one stream result per generated chunk
HandlerStream(r, ok) ==
  /\ wstate[r] = "running"
  /\ Streams(r) < MaxChunks
  /\ PublishResult(r, "stream",
        Data(IF envelopes[r].command = "index" THEN "progress" ELSE "chunk",
             Streams(r) + 1), ok)
  /\ UNCHANGED <<gatewayVars, envelopes, taken, wstate, raised>>

\* the handler returns: its last statement publishes the complete result
HandlerCompleteEarly(r, ok) ==
  /\ wstate[r] = "running"
  /\ PublishResult(r, "complete", Data("complete", 0), ok)
  /\ UNCHANGED <<gatewayVars, envelopes, taken, wstate, raised>>
HandlerComplete(r, ok) ==
  /\ wstate[r] = "running"
  /\ PublishResult(r, "complete", Data("complete", 0), ok)
  /\ wstate' = [wstate EXCEPT ![r] = "done"]
  /\ UNCHANGED <<gatewayVars, envelopes, taken, raised>>

\* where a handler can throw: handleIndex at any await (parse, clearProject,
\* embeddings, storeChunks, getStats); handlePlan and handleErrorAnalysis
\* before the generation stream is returned (a failure while iterating the
\* stream is turned into a chunk by streamResponse)
CanThrow(r) ==
  envelopes[r].command = "index" \/ Streams(r) = 0

\* processJob's catch: publishError(job.jobId, error)
CatchSwallow(r, ok) ==
  /\ UNCHANGED <<emitted, inbox, dropped, faults>>
  /\ ok
CatchPublishError(r, ok) ==
  PublishResult(r, "error", Data("handler failure", 0), ok)

\* the handler throws; processJob catches
HandlerThrow(r, ok) ==
  /\ wstate[r] = "running"
  /\ CanThrow(r)
  /\ CatchPublishError(r, ok)
  /\ raised' = [raised EXCEPT ![r] = TRUE]
  /\ wstate' = [wstate EXCEPT ![r] = "done"]
  /\ UNCHANGED <<gatewayVars, envelopes, taken>>

---------------------------------------------------------------------------
(* Vector store and handleIndex: RedisVectorStore, CodePlannerWorker *)

\* handleIndex: const batchSize = 20
batchSize == 20
\* batches of the largest project that is indexed
MaxBatches == 2
\* index jobs that are ever started
MaxIndexJobs == 2
\* searchSimilar calls that are ever made
MaxSearches == 1

IndexJobs == 1..MaxIndexJobs
ChunkIds == 1..(MaxBatches * batchSize + 1)
\* chunk counts of the projects indexed: around the batch boundaries
Sizes ==
  {1, batchSize, batchSize + 1, MaxBatches * batchSize + 1}

\* the chunks chunkCodeChunks returned to index run k: ids 1..n, pairwise
\* distinct, with the content of that run
ChunkSet(k) == {<<id, k>> : id \in 1..ijob[k].n}

Active(k) == ijob[k].pc \notin {"idle", "done"}

\* handleIndex up to `await this.vectorStore.clearProject(...)`: parse and
\* chunk the project into n chunks
IndexStart(k, n) ==
  /\ ijob[k].pc = "idle"
  /\ ijob' = [ijob EXCEPT ![k].pc = "clear", ![k].n = n]
  /\ overlapped' =
       IF \E o \in IndexJobs : Active(o)
       THEN [j \in IndexJobs |-> overlapped[j] \/ j = k \/ Active(j)]
       ELSE overlapped
  /\ UNCHANGED <<projectIndex, chunkKeys, ipublished, searchPc, searchIds,
                 searchLog>>

\* clearProject: chunkIds = await sMembers(indexKey); nothing to clear: return
ClearMembers(k) ==
  /\ ijob[k].pc = "clear"
  /\ ijob' = [ijob EXCEPT ![k].chunkIds = projectIndex,
                          ![k].pc = IF projectIndex = {} THEN "batch"
                                    ELSE "clearExec"]
  /\ UNCHANGED <<projectIndex, chunkKeys, ipublished, overlapped, searchPc,
                 searchIds, searchLog>>

\* clearProject: the MULTI that deletes the chunk keys read and the index set
ClearExecKeep(k) ==
  /\ ijob[k].pc = "clearExec"
  /\ ijob' = [ijob EXCEPT ![k].pc = "batch"]
  /\ UNCHANGED <<projectIndex, chunkKeys, ipublished, overlapped, searchPc,
                 searchIds, searchLog>>
ClearExec(k) ==
  /\ ijob[k].pc = "clearExec"
  /\ chunkKeys' = [id \in ChunkIds |->
                     IF id \in ijob[k].chunkIds THEN 0 ELSE chunkKeys[id]]
  /\ projectIndex' = {}
  /\ ijob' = [ijob EXCEPT ![k].pc = "batch"]
  /\ UNCHANGED <<ipublished, overlapped, searchPc, searchIds, searchLog>>

\* loop head with i < chunkedChunks.length: publishProgress
PublishProgress(k) ==
  /\ ijob[k].pc = "batch"
  /\ ijob[k].processedCount < ijob[k].n
  /\ ipublished' = [ipublished EXCEPT ![k] =
       Append(@, [type |-> "stream", current |-> ijob[k].processedCount,
                  total |-> ijob[k].n])]
  /\ ijob' = [ijob EXCEPT ![k].pc = "embed"]
  /\ UNCHANGED <<projectIndex, chunkKeys, overlapped, searchPc, searchIds,
                 searchLog>>

\* generateEmbeddingsForChunks(batch): one embedding per chunk, or it throws
\* and processJob's catch publishes the error
GenerateEmbeddings(k, ok) ==
  /\ ijob[k].pc = "embed"
  /\ IF ok
     THEN /\ ijob' = [ijob EXCEPT ![k].pc = "store"]
          /\ UNCHANGED ipublished
     ELSE /\ ijob' = [ijob EXCEPT ![k].pc = "done"]
          /\ ipublished' = [ipublished EXCEPT ![k] =
               Append(@, [type |-> "error", current |-> 0, total |-> 0])]
  /\ UNCHANGED <<projectIndex, chunkKeys, overlapped, searchPc, searchIds,
                 searchLog>>

\* chunkedChunks.slice(i, i + batchSize)
Batch(k) ==
  {id \in 1..ijob[k].n :
     /\ id > ijob[k].processedCount
     /\ id <= ijob[k].processedCount + batchSize}

\* storeChunks(batch): one MULTI with hSet and sAdd per chunk;
\* processedCount += batch.length
StoreChunks(k) ==
  /\ ijob[k].pc = "store"
  /\ chunkKeys' = [id \in ChunkIds |->
                     IF id \in Batch(k) THEN k ELSE chunkKeys[id]]
  /\ projectIndex' = projectIndex \cup Batch(k)
  /\ ijob' = [ijob EXCEPT ![k].pc = "batch",
                          ![k].processedCount = @ + Cardinality(Batch(k))]
  /\ UNCHANGED <<ipublished, overlapped, searchPc, searchIds, searchLog>>

\* loop exit, getStats: totalChunks = (await sMembers(indexKey)).length
GetStats(k) ==
  /\ ijob[k].pc = "batch"
  /\ ijob[k].processedCount >= ijob[k].n
  /\ ijob' = [ijob EXCEPT ![k].pc = "complete",
                          ![k].totalChunks = Cardinality(projectIndex)]
  /\ UNCHANGED <<projectIndex, chunkKeys, ipublished, overlapped, searchPc,
                 searchIds, searchLog>>

\* publishResult(jobId, {type: 'complete', data: {stats}}) and return
PublishComplete(k) ==
  /\ ijob[k].pc = "complete"
  /\ ipublished' = [ipublished EXCEPT ![k] =
       Append(@, [type |-> "complete", current |-> ijob[k].totalChunks,
                  total |-> ijob[k].totalChunks])]
  /\ ijob' = [ijob EXCEPT ![k].pc = "done"]
  /\ UNCHANGED <<projectIndex, chunkKeys, overlapped, searchPc, searchIds,
                 searchLog>>

\* the chunk sets that are a whole index of the project at this moment: the
\* set of every index run that has started and, while no run has completed,
\* the empty set the store was created with
WholeSets ==
  {ChunkSet(k) : k \in {j \in IndexJobs : ijob[j].pc # "idle"}}
  \cup (IF \A k \in IndexJobs : CountType(ipublished[k], "complete") = 0
        THEN {{}} ELSE {})

\* searchSimilar: chunkIds = await sMembers(indexKey); none: return []
SearchMembers ==
  /\ searchPc = "idle"
  /\ Len(searchLog) < MaxSearches
  /\ IF projectIndex = {}
     THEN /\ searchLog' = Append(searchLog,
               [during |-> {k \in IndexJobs : Active(k)},
                whole |-> WholeSets, seen |-> {}])
          /\ UNCHANGED <<searchPc, searchIds>>
     ELSE /\ searchPc' = "fetch"
          /\ searchIds' = projectIndex
          /\ UNCHANGED searchLog
  /\ UNCHANGED <<projectIndex, chunkKeys, ijob, ipublished, overlapped>>

\* searchSimilar: hGetAll of every chunk id read (the reads of the loop are
\* taken as one step); a chunk without an embedding field is left out
SearchFetch ==
  /\ searchPc = "fetch"
  /\ searchLog' = Append(searchLog,
       [during |-> {k \in IndexJobs : Active(k)},
        whole  |-> WholeSets,
        seen   |-> {<<id, chunkKeys[id]>> :
                      id \in {x \in searchIds : chunkKeys[x] # 0}}])
  /\ searchPc' = "idle"
  /\ searchIds' = {}
  /\ UNCHANGED <<projectIndex, chunkKeys, ijob, ipublished, overlapped>>

IndexInit ==
  /\ projectIndex = {}
  /\ chunkKeys = [id \in ChunkIds |-> 0]
  /\ ijob = [k \in IndexJobs |->
               [pc |-> "idle", n |-> 0, processedCount |-> 0,
                chunkIds |-> {}, totalChunks |-> 0]]
  /\ ipublished = [k \in IndexJobs |-> <<>>]
  /\ overlapped = [k \in IndexJobs |-> FALSE]
  /\ searchPc = "idle"
  /\ searchIds = {}
  /\ searchLog = <<>>

---------------------------------------------------------------------------
(* QueuedRateLimiter: packages/engine/src/utils/rate-limiter.ts *)

\* the window of the rate: 60000 ms
MinuteMs == 60000
\* the shortest period of the interval timer: Math.max(250, ...)
MinPeriodMs == 250
\* requestsPerMinute values a limiter is constructed with: 1..MaxRpm
MaxRpm == 7
\* schedule calls that are ever made
MaxTasks == 8
\* how late a timer callback can run, in ms, and how many of them do
JitterMs == 50
MaxLate == 1
\* idle periods between two bursts of schedule calls
MaxWaits == 1

Rpms == 1..MaxRpm
\* a callback runs when it is due or JitterMs later
Lateness == {0, JitterMs}
\* length of an idle period, in ms
Waits == {1, MinPeriodMs}

Max(a, b) == IF a >= b THEN a ELSE b

\* Math.max(1, options.requestsPerMinute)
RequestsPerMinute(n) == Max(1, n)
\* Math.floor(60000 / requestsPerMinute)
IntervalMs(n) == MinuteMs \div RequestsPerMinute(n)
\* the period start() gives setInterval
PeriodMs == Max(MinPeriodMs, intervalMs \div 3)

\* getRateLimiter calls that are ever made
MaxGets == 2
\* schedule calls whose promises are followed until they settle
MaxFutures == 3

Tasks == 1..MaxTasks

\* getRateLimiter(options): the constructor runs when there is no singleton
\* yet; every later call returns the singleton whatever its options
GetRateLimiterNew(n) ==
  /\ obtained < MaxGets
  /\ obtained' = obtained + 1
  /\ constructed' = constructed + 1
  /\ requestsPerMinute' = RequestsPerMinute(n)
  /\ intervalMs' = IntervalMs(n)
  /\ queue' = <<>>
  /\ isRunning' = FALSE
  /\ timer' = 0
  /\ lastRunAt' = -1
  /\ UNCHANGED <<now, issued, starts, lateTicks, waits, future>>
GetRateLimiter(n) ==
  /\ obtained < MaxGets
  /\ obtained' = obtained + 1
  /\ IF requestsPerMinute = 0
     THEN /\ constructed' = constructed + 1
          /\ requestsPerMinute' = RequestsPerMinute(n)
          /\ intervalMs' = IntervalMs(n)
     ELSE UNCHANGED <<constructed, requestsPerMinute, intervalMs>>
  /\ UNCHANGED <<queue, isRunning, timer, lastRunAt, now, issued, starts,
                 lateTicks, waits, future>>

\* schedule(task): push, then start()
SchedulePrepend ==
  /\ requestsPerMinute # 0
  /\ issued < MaxTasks
  /\ issued' = issued + 1
  /\ queue' = <<issued + 1>> \o queue
  /\ future' = [future EXCEPT ![issued + 1] = "pending"]
  /\ IF isRunning
     THEN UNCHANGED <<isRunning, timer>>
     ELSE /\ isRunning' = TRUE
          /\ timer' = now + PeriodMs
  /\ UNCHANGED <<requestsPerMinute, intervalMs, lastRunAt, now, starts,
                 lateTicks, waits, constructed, obtained>>
ScheduleNoStart ==
  /\ requestsPerMinute # 0
  /\ issued < MaxTasks
  /\ issued' = issued + 1
  /\ queue' = Append(queue, issued + 1)
  /\ future' = [future EXCEPT ![issued + 1] = "pending"]
  /\ UNCHANGED <<isRunning, timer>>
  /\ UNCHANGED <<requestsPerMinute, intervalMs, lastRunAt, now, starts,
                 lateTicks, waits, constructed, obtained>>
Schedule ==
  /\ requestsPerMinute # 0
  /\ issued < MaxTasks
  /\ issued' = issued + 1
  /\ queue' = Append(queue, issued + 1)
  /\ future' = [future EXCEPT ![issued + 1] = "pending"]
  /\ IF isRunning
     THEN UNCHANGED <<isRunning, timer>>
     ELSE /\ isRunning' = TRUE
          /\ timer' = now + PeriodMs
  /\ UNCHANGED <<requestsPerMinute, intervalMs, lastRunAt, now, starts,
                 lateTicks, waits, constructed, obtained>>

\* the state of the promise of the task dispatched last, "none": no dispatch
PrevFuture ==
  IF starts = <<>> THEN "none" ELSE future[starts[Len(starts)].id]

\* the interval timer runs tick, `late` ms after it was due
TickStopStuck(late) ==
  /\ timer # 0
  /\ late = 0 \/ lateTicks < MaxLate
  /\ lateTicks' = IF late = 0 THEN lateTicks ELSE lateTicks + 1
  /\ now' = timer + late
  /\ IF queue = <<>>
     THEN /\ timer' = 0
          /\ UNCHANGED <<queue, isRunning, lastRunAt, starts, future>>
     ELSE IF lastRunAt # -1 /\ now' - lastRunAt < intervalMs
     THEN /\ timer' = now' + PeriodMs
          /\ UNCHANGED <<queue, isRunning, lastRunAt, starts, future>>
     ELSE /\ queue' = Tail(queue)
          /\ lastRunAt' = now'
          /\ starts' = Append(starts, [id |-> Head(queue), at |-> now',
                                       prev |-> PrevFuture])
          /\ future' = [future EXCEPT ![Head(queue)] = "running"]
          /\ timer' = now' + PeriodMs
          /\ UNCHANGED isRunning
  /\ UNCHANGED <<requestsPerMinute, intervalMs, issued, waits, constructed,
                 obtained>>
TickAfterSettle(late) ==
  /\ timer # 0
  /\ late = 0 \/ lateTicks < MaxLate
  /\ lateTicks' = IF late = 0 THEN lateTicks ELSE lateTicks + 1
  /\ now' = timer + late
  /\ IF queue = <<>>
     THEN /\ timer' = 0
          /\ isRunning' = FALSE
          /\ UNCHANGED <<queue, lastRunAt, starts, future>>
     ELSE IF \/ lastRunAt # -1 /\ now' - lastRunAt < intervalMs
             \/ PrevFuture = "running"
     THEN /\ timer' = now' + PeriodMs
          /\ UNCHANGED <<queue, isRunning, lastRunAt, starts, future>>
     ELSE /\ queue' = Tail(queue)
          /\ lastRunAt' = now'
          /\ starts' = Append(starts, [id |-> Head(queue), at |-> now',
                                       prev |-> PrevFuture])
          /\ future' = [future EXCEPT ![Head(queue)] = "running"]
          /\ timer' = now' + PeriodMs
          /\ UNCHANGED isRunning
  /\ UNCHANGED <<requestsPerMinute, intervalMs, issued, waits, constructed,
                 obtained>>
Tick(late) ==
  /\ timer # 0
  /\ late = 0 \/ lateTicks < MaxLate
  /\ lateTicks' = IF late = 0 THEN lateTicks ELSE lateTicks + 1
  /\ now' = timer + late
  /\ IF queue = <<>>
     THEN \* stop()
          /\ timer' = 0
          /\ isRunning' = FALSE
          /\ UNCHANGED <<queue, lastRunAt, starts, future>>
     ELSE IF lastRunAt # -1 /\ now' - lastRunAt < intervalMs
     THEN \* not yet time
          /\ timer' = now' + PeriodMs
          /\ UNCHANGED <<queue, isRunning, lastRunAt, starts, future>>
     ELSE \* queue.shift(), lastRunAt = Date.now(), next.task()
          /\ queue' = Tail(queue)
          /\ lastRunAt' = now'
          /\ starts' = Append(starts, [id |-> Head(queue), at |-> now',
                                       prev |-> PrevFuture])
          /\ future' = [future EXCEPT ![Head(queue)] = "running"]
          /\ timer' = now' + PeriodMs
          /\ UNCHANGED isRunning
  /\ UNCHANGED <<requestsPerMinute, intervalMs, issued, waits, constructed,
                 obtained>>

\* the promise of a dispatched task settles: .then(resolve) / .catch(reject)
Settle(id, ok) ==
  /\ future[id] = "running"
  /\ future' = [future EXCEPT ![id] = IF ok THEN "resolved" ELSE "rejected"]
  /\ UNCHANGED <<requestsPerMinute, intervalMs, queue, isRunning, timer,
                 lastRunAt, now, issued, starts, lateTicks, waits,
                 constructed, obtained>>

\* time passes while the limiter has no timer
Wait(d) ==
  /\ requestsPerMinute # 0
  /\ timer = 0
  /\ waits < MaxWaits
  /\ waits' = waits + 1
  /\ now' = now + d
  /\ UNCHANGED <<requestsPerMinute, intervalMs, queue, isRunning, timer,
                 lastRunAt, issued, starts, lateTicks, constructed,
                 obtained, future>>

LimiterInit ==
  /\ requestsPerMinute = 0
  /\ intervalMs = 0
  /\ queue = <<>>
  /\ isRunning = FALSE
  /\ timer = 0
  /\ lastRunAt = -1
  /\ now = 0
  /\ issued = 0
  /\ starts = <<>>
  /\ lateTicks = 0
  /\ waits = 0
  /\ constructed = 0
  /\ obtained = 0
  /\ future = [id \in Tasks |-> "none"]

---------------------------------------------------------------------------
(* Outbound calls: handlePlan, handleErrorAnalysis, handleIndex,
   PlanGenerator.generatePlan and withRateLimitRetry *)

\* withRateLimitRetry defaults
retries == 5
baseDelayMs == 500
maxDelayMs == 8000
\* Math.floor(Math.random() * 250) is at most this
MaxJitterMs == 249
\* jobs whose outbound calls are followed
MaxCallJobs == 2
\* seconds of a retry-after header that exceed maxDelayMs
LongHint == 9
\* tokens of a generation stream
MaxTokens == 2

NoHint == 0
Jitters == {0, MaxJitterMs}
RetryAfters == {NoHint, 1, LongHint}
Commands == {"index", "plan", "analyze-error"}

\* what the provider's failure looks like to the wrapper: err.status, whether
\* err.message contains "429", and the retry-after header in seconds
Errors == [status : {429, 400}, msg429 : BOOLEAN, retryAfter : RetryAfters]
NoErr == [status |-> 0, msg429 |-> FALSE, retryAfter |-> NoHint]

RECURSIVE Pow2(_)
Pow2(n) == IF n = 0 THEN 1 ELSE 2 * Pow2(n - 1)

Least(a, b) == IF a <= b THEN a ELSE b

\* status === 429 || /429/.test(String(err?.message ?? ''))
IsRateLimit(e) == e.status = 429 \/ e.msg429

\* the delay before the next attempt
DelayUncapped(attempt, e, jitter) ==
  (IF e.retryAfter # NoHint
   THEN e.retryAfter * 1000
   ELSE baseDelayMs * Pow2(attempt)) + jitter
Delay(attempt, e, jitter) ==
  Least(maxDelayMs,
        (IF e.retryAfter # NoHint
         THEN e.retryAfter * 1000
         ELSE Least(maxDelayMs, baseDelayMs * Pow2(attempt))) + jitter)

\* the message of the Error generatePlan's catch block throws
PlanErrorMessagePlain(e) == "plan-generation-failed"
PlanErrorMessage(e) ==
  IF e.status = 429 \/ e.msg429
  THEN "rate-limit-guidance"
  ELSE "plan-generation-failed"

Result(type, message) == [job |-> hjobs, type |-> type, message |-> message]
Call(kind, via) == [job |-> hjobs, kind |-> kind, via |-> via]

\* processJob dispatches on job.command
HandlerStart(cmd) ==
  /\ hjob.pc \in {"done", "failed"}
  /\ hjobs < MaxCallJobs
  /\ hjobs' = hjobs + 1
  /\ hjob' = [cmd |-> cmd, pc |-> "embed", attempt |-> 0, invocations |-> 0,
              err |-> NoErr, delay |-> 0, streamErr |-> FALSE]
  /\ UNCHANGED <<hresults, outbound>>

\* embeddingGen.generateEmbedding / generateEmbeddingsForChunks: the handler
\* calls the provider itself
Embed(ok) ==
  /\ hjob.pc = "embed"
  /\ outbound' = outbound \cup {Call("embedding", "direct")}
  /\ IF ~ok
     THEN /\ hjob' = [hjob EXCEPT !.pc = "failed"]
          /\ hresults' = Append(hresults, Result("error", "embedding-failed"))
     ELSE IF hjob.cmd = "index"
     THEN /\ hjob' = [hjob EXCEPT !.pc = "done"]
          /\ hresults' = Append(hresults, Result("complete", "stats"))
     ELSE /\ hjob' = [hjob EXCEPT !.pc = IF hjob.cmd = "plan"
                                         THEN "generate" ELSE "analyze"]
          /\ UNCHANGED hresults
  /\ UNCHANGED hjobs

\* withRateLimitRetry calls fn: limiter.schedule queues the provider call
PlanSchedule ==
  /\ hjob.pc = "generate"
  /\ hjob' = [hjob EXCEPT !.pc = "queued", !.invocations = @ + 1]
  /\ UNCHANGED <<hjobs, hresults, outbound>>

\* the limiter's tick dispatches the queued task, which calls the provider
PlanDispatch ==
  /\ hjob.pc = "queued"
  /\ hjob' = [hjob EXCEPT !.pc = "called"]
  /\ outbound' = outbound \cup {Call("generation", "scheduler")}
  /\ UNCHANGED <<hjobs, hresults>>

\* the provider call returns: a stream, which handlePlan iterates, or an
\* error, which the wrapper retries after a delay or throws through
\* generatePlan's catch, handlePlan and processJob to publishError
PlanReturn(ok, e, jitter) ==
  /\ hjob.pc = "called"
  /\ IF ok
     THEN /\ hjob' = [hjob EXCEPT !.pc = "streaming"]
          /\ UNCHANGED hresults
     ELSE IF ~IsRateLimit(e) \/ hjob.attempt = retries
     THEN /\ hjob' = [hjob EXCEPT !.pc = "failed", !.err = e]
          /\ hresults' = Append(hresults, Result("error", PlanErrorMessage(e)))
     ELSE /\ hjob' = [hjob EXCEPT !.pc = "backoff", !.err = e,
                                  !.delay = Delay(hjob.attempt, e, jitter)]
          /\ UNCHANGED hresults
  /\ UNCHANGED <<hjobs, outbound>>

\* setTimeout(delay) elapses; attempt++
Backoff ==
  /\ hjob.pc = "backoff"
  /\ hjob' = [hjob EXCEPT !.pc = "generate", !.attempt = @ + 1]
  /\ UNCHANGED <<hjobs, hresults, outbound>>

\* errorDebugger.analyzeError calls the provider itself
Analyze(ok) ==
  /\ hjob.pc = "analyze"
  /\ outbound' = outbound \cup {Call("analysis", "direct")}
  /\ hjob' = [hjob EXCEPT !.pc = IF ok THEN "streaming" ELSE "failed"]
  /\ hresults' = IF ok
                 THEN hresults
                 ELSE Append(hresults, Result("error", "analysis-failed"))
  /\ UNCHANGED hjobs

\* stream results published for the job at hand
Streamed ==
  Cardinality({i \in 1..Len(hresults) :
                 hresults[i].job = hjobs /\ hresults[i].type = "stream"})

\* streamResponse yields the content of a token and the handler publishes
\* it
StreamToken ==
  /\ hjob.pc = "streaming"
  /\ Streamed < MaxTokens
  /\ hresults' = Append(hresults, Result("stream", "text"))
  /\ UNCHANGED <<hjob, hjobs, outbound>>

\* iterating the provider's stream throws: streamResponse catches, yields
\* the text of the error and ends; the handler publishes it and completes
StreamFailThrows ==
  /\ hjob.pc = "streaming"
  /\ hjob' = [hjob EXCEPT !.pc = "failed", !.streamErr = TRUE]
  /\ hresults' = Append(hresults, Result("error", "stream-error-text"))
  /\ UNCHANGED <<hjobs, outbound>>
StreamFail ==
  /\ hjob.pc = "streaming"
  /\ hjob' = [hjob EXCEPT !.pc = "done", !.streamErr = TRUE]
  /\ hresults' = hresults \o <<Result("stream", "stream-error-text"),
                               Result("complete", "complete")>>
  /\ UNCHANGED <<hjobs, outbound>>

\* the provider's stream ends: the handler publishes complete
StreamEnd ==
  /\ hjob.pc = "streaming"
  /\ hjob' = [hjob EXCEPT !.pc = "done"]
  /\ hresults' = Append(hresults, Result("complete", "complete"))
  /\ UNCHANGED <<hjobs, outbound>>

CallsInit ==
  /\ hjob = [cmd |-> "none", pc |-> "done", attempt |-> 0, invocations |-> 0,
             err |-> NoErr, delay |-> 0, streamErr |-> FALSE]
  /\ hjobs = 0
  /\ hresults = <<>>
  /\ outbound = {}

---------------------------------------------------------------------------
(* RedisVectorStore.searchSimilar and cosineSimilarity *)

\* config.maxResults as the Worker constructs the store
maxResults == 20
\* most chunks of the index that share one embedding
MaxPerKind == 11

\* embeddings in tenths: cosine similarity does not depend on the scale
Embeddings == {<<10, 0>>, <<0, 10>>, <<7, 7>>, <<-10, 0>>}
ZeroVector == <<0, 0>>
Queries == Embeddings \cup {ZeroVector}
PerKind == {0, 1, MaxPerKind}
Limits == {1, 2, 10, maxResults, maxResults + 1}
\* 0 / 0
NaN == [dot |-> 0, mag2 |-> 0]

Dot(a, b) == a[1] * b[1] + a[2] * b[2]
Mag2(a) == Dot(a, a)
SignSq(x) == IF x < 0 THEN -(x * x) ELSE x * x

\* dotProduct / (magnitudeA * magnitudeB), kept exact as the pair of the
\* dot product and the squared product of the magnitudes; 0 / 0 is NaN
CosineSimilarity(a, b) ==
  IF Mag2(a) * Mag2(b) = 0
  THEN NaN
  ELSE [dot |-> Dot(a, b), mag2 |-> Mag2(a) * Mag2(b)]

\* s > t as numbers; false when either is NaN
Greater(s, t) ==
  /\ s # NaN
  /\ t # NaN
  /\ SignSq(s.dot) * t.mag2 > SignSq(t.dot) * s.mag2

\* (a, b) => b.similarity - a.similarity, as sort reads it: its sign, and
\* NaN taken as +0
ComparatorAscending(a, b) ==
  IF Greater(a.similarity, b.similarity) THEN 1
  ELSE IF Greater(b.similarity, a.similarity) THEN -1
  ELSE 0
Comparator(a, b) ==
  IF Greater(b.similarity, a.similarity) THEN 1
  ELSE IF Greater(a.similarity, b.similarity) THEN -1
  ELSE 0

\* the entry pushed for a chunk with embedding e
Entry(q, e) == [embedding |-> e, similarity |-> CosineSimilarity(q, e)]

\* the orders in which the members of the index set can come, by embedding
Orders ==
  {o \in [1..Cardinality(Embeddings) -> Embeddings] :
     \A i, j \in 1..Cardinality(Embeddings) : o[i] = o[j] => i = j}

RECURSIVE Repeat(_, _)
Repeat(x, n) == IF n = 0 THEN <<>> ELSE <<x>> \o Repeat(x, n - 1)

RECURSIVE Entries(_, _, _)
\* the entries of the chunks of index ix, in the order o of their embeddings
Entries(ix, q, o) ==
  IF o = <<>> THEN <<>>
  ELSE Repeat(Entry(q, Head(o)), ix[Head(o)]) \o Entries(ix, q, Tail(o))

\* what the stable sort can return: the chunks in an order o of their
\* embeddings in which the comparator puts no chunk after a later one
IsSorted(ix, q, o) ==
  \A i, j \in 1..Len(o) :
    (i < j /\ ix[o[i]] > 0 /\ ix[o[j]] > 0)
      => Comparator(Entry(q, o[i]), Entry(q, o[j])) <= 0

\* slice(0, Math.min(limit, maxResults))
Slice(s, limit) ==
  SubSeq(s, 1, Least(Least(limit, maxResults), Len(s)))

NumChunks(ix) == ix[<<10, 0>>] + ix[<<0, 10>>] + ix[<<7, 7>>] + ix[<<-10, 0>>]

\* the order in which storeChunks was given the chunks, by embedding: all
\* chunks of Inserted[1] first, then those of Inserted[2], ...
Inserted == <<<<10, 0>>, <<0, 10>>, <<7, 7>>, <<-10, 0>>>>
InsertedAt(emb) == CHOOSE i \in 1..Len(Inserted) : Inserted[i] = emb

\* storeChunks has stored the chunks of the project with their embeddings
StoreEmbeddings(ix) ==
  /\ sPc = "empty"
  /\ sPc' = "indexed"
  /\ sIndex' = ix
  /\ UNCHANGED <<sQuery, sLimit, sResult>>

\* searchSimilar(userId, projectId, q, limit)
SearchSimilar(q, limit, o) ==
  /\ sPc = "indexed"
  /\ IsSorted(sIndex, q, o)
  /\ sPc' = "searched"
  /\ sQuery' = q
  /\ sLimit' = limit
  /\ sResult' = Slice(Entries(sIndex, q, o), limit)
  /\ UNCHANGED sIndex

SearchInit ==
  /\ sPc = "empty"
  /\ sIndex = [e \in Embeddings |-> 0]
  /\ sQuery = ZeroVector
  /\ sLimit = 0
  /\ sResult = <<>>

---------------------------------------------------------------------------
(* RedisVectorStore: storeChunk, storeChunks, searchSimilar, clearProject,
   getStats, each with the storage call that fails, if any *)

\* chunk ids of the project
MaxStoreChunks == 2
\* store operations that are ever called
MaxStoreOps == 4

StChunks == 1..MaxStoreChunks

Report(op, failed, outcome, count, found) ==
  [op |-> op, failed |-> failed, outcome |-> outcome, count |-> count,
   found |-> found]

\* an operation ends with report r
Ends(r) ==
  /\ stOps < MaxStoreOps
  /\ stOps' = stOps + 1
  /\ stPrev' = stLast
  /\ stLast' = r

\* what getStats returns as totalChunks when its reads succeed
StatsReport == Cardinality(stSet)

\* the chunks searchSimilar returns when its reads succeed and the limit
\* allows: the members of the index set whose hash has an embedding
SearchReport == {id \in stSet : stHash[id] = "embedded"}

\* storeChunk(chunk): throws without an embedding, then hSet, then sAdd
StoreChunk(id, embedding, fail) ==
  /\ fail \in {"none", "hSet", "sAdd"}
  /\ embedding \/ fail = "none"
  /\ IF ~embedding
     THEN /\ Ends(Report("put", FALSE, "threw", 0, {}))
          /\ UNCHANGED <<stHash, stSet>>
     ELSE IF fail = "hSet"
     THEN /\ Ends(Report("put", TRUE, "threw", 0, {}))
          /\ UNCHANGED <<stHash, stSet>>
     ELSE IF fail = "sAdd"
     THEN /\ Ends(Report("put", TRUE, "threw", 0, {}))
          /\ stHash' = [stHash EXCEPT ![id] = "embedded"]
          /\ UNCHANGED stSet
     ELSE /\ Ends(Report("put", FALSE, "returned", 0, {}))
          /\ stHash' = [stHash EXCEPT ![id] = "embedded"]
          /\ stSet' = stSet \cup {id}

\* storeChunks(chunks): one MULTI of hSet and sAdd for the chunks that have
\* an embedding; count: the chunks skipped
PutBatchNoSkip(ids, embedded, fail) ==
  /\ fail \in {"none", "exec"}
  /\ embedded \subseteq ids
  /\ IF fail = "exec"
     THEN /\ Ends(Report("putBatch", TRUE, "threw", 0, {}))
          /\ UNCHANGED <<stHash, stSet>>
     ELSE /\ Ends(Report("putBatch", FALSE, "returned",
                         Cardinality(ids \ embedded), {}))
          /\ stHash' = [id \in StChunks |->
                          IF id \in embedded THEN "embedded"
                          ELSE IF id \in ids THEN "bare"
                          ELSE stHash[id]]
          /\ stSet' = stSet \cup ids
PutBatch(ids, embedded, fail) ==
  /\ fail \in {"none", "exec"}
  /\ embedded \subseteq ids
  /\ IF fail = "exec"
     THEN /\ Ends(Report("putBatch", TRUE, "threw", 0, {}))
          /\ UNCHANGED <<stHash, stSet>>
     ELSE /\ Ends(Report("putBatch", FALSE, "returned",
                         Cardinality(ids \ embedded), {}))
          /\ stHash' = [id \in StChunks |->
                          IF id \in embedded THEN "embedded" ELSE stHash[id]]
          /\ stSet' = stSet \cup embedded

\* searchSimilar: sMembers, return [] when empty, else hGetAll per member;
\* a failed read is logged and thrown again
SearchStoreEmptyThrows(fail) ==
  /\ fail \in {"none", "sMembers", "hGetAll"}
  /\ fail = "hGetAll" => stSet # {}
  /\ IF fail # "none"
     THEN Ends(Report("search", TRUE, "threw", 0, {}))
     ELSE IF stSet = {}
     THEN Ends(Report("search", FALSE, "threw", 0, {}))
     ELSE Ends(Report("search", FALSE, "returned", 0, SearchReport))
  /\ UNCHANGED <<stHash, stSet>>
SearchStore(fail) ==
  /\ fail \in {"none", "sMembers", "hGetAll"}
  /\ fail = "hGetAll" => stSet # {}
  /\ IF fail # "none"
     THEN Ends(Report("search", TRUE, "threw", 0, {}))
     ELSE IF stSet = {}
     THEN Ends(Report("search", FALSE, "returned", 0, {}))
     ELSE Ends(Report("search", FALSE, "returned", 0, SearchReport))
  /\ UNCHANGED <<stHash, stSet>>

\* clearProject: sMembers, return when empty, else one MULTI that deletes
\* the members' hashes and the index set; count: the chunks cleared
ClearProjectKeepIndex(fail) ==
  /\ fail \in {"none", "sMembers", "exec"}
  /\ fail = "exec" => stSet # {}
  /\ IF fail # "none"
     THEN /\ Ends(Report("clear", TRUE, "threw", 0, {}))
          /\ UNCHANGED <<stHash, stSet>>
     ELSE /\ Ends(Report("clear", FALSE, "returned", Cardinality(stSet), {}))
          /\ stHash' = [id \in StChunks |->
                          IF id \in stSet THEN "none" ELSE stHash[id]]
          /\ UNCHANGED stSet
ClearProject(fail) ==
  /\ fail \in {"none", "sMembers", "exec"}
  /\ fail = "exec" => stSet # {}
  /\ IF fail # "none"
     THEN /\ Ends(Report("clear", TRUE, "threw", 0, {}))
          /\ UNCHANGED <<stHash, stSet>>
     ELSE /\ Ends(Report("clear", FALSE, "returned", Cardinality(stSet), {}))
          /\ stHash' = [id \in StChunks |->
                          IF id \in stSet THEN "none" ELSE stHash[id]]
          /\ stSet' = {}

\* getStats: sMembers and hGetAll per member; a failed read is logged and
\* answered with zeros
GetStoreStats(fail) ==
  /\ fail \in {"none", "sMembers", "hGetAll"}
  /\ fail = "hGetAll" => stSet # {}
  /\ IF fail # "none"
     THEN Ends(Report("stats", TRUE, "returned", 0, {}))
     ELSE Ends(Report("stats", FALSE, "returned", StatsReport, {}))
  /\ UNCHANGED <<stHash, stSet>>

StoreInit ==
  /\ stHash = [id \in StChunks |-> "none"]
  /\ stSet = {}
  /\ stOps = 0
  /\ stLast = Report("none", FALSE, "returned", 0, {})
  /\ stPrev = Report("none", FALSE, "returned", 0, {})

---------------------------------------------------------------------------
(* generatePlan's attempts in the limiter's queue:
   withRateLimitRetry(() => limiter.schedule(...)) *)

\* schedule calls followed in the queue
MaxRetryTasks == 4

\* a throttling error without a retry-after header
RetryErrors ==
  {e \in Errors : e.status = 429 /\ ~e.msg429 /\ e.retryAfter = NoHint}

\* an attempt of withRateLimitRetry: fn calls limiter.schedule
RetrySubmitFront ==
  /\ PlanSchedule
  /\ SchedulePrepend
  /\ hsubmits' = Append(hsubmits, [task |-> issued + 1, ahead |-> queue,
                                   attempt |-> hjob.attempt])
RetrySubmit ==
  /\ PlanSchedule
  /\ Schedule
  /\ hsubmits' = Append(hsubmits, [task |-> issued + 1, ahead |-> queue,
                                   attempt |-> hjob.attempt])

\* the limiter's tick; when it dispatches the task of the attempt at hand,
\* the task calls the provider
RetryTick(late) ==
  /\ Tick(late)
  /\ IF /\ Len(starts') > Len(starts)
        /\ hjob.pc = "queued"
        /\ hsubmits # <<>>
        /\ starts'[Len(starts')].id = hsubmits[Len(hsubmits)].task
     THEN PlanDispatch
     ELSE UNCHANGED callsVars
  /\ UNCHANGED hsubmits

RetryInit == hsubmits = <<>>

---------------------------------------------------------------------------
Init ==
  /\ connections = {}
  /\ socket = [c \in Conns |-> "new"]
  /\ inbound = <<>>
  /\ gpc = [j \in JobIds |-> "none"]
  /\ listener = [j \in JobIds |-> NoConn]
  /\ subscribeCalls = [j \in JobIds |-> 0]
  /\ handled = [j \in JobIds |-> <<>>]
  /\ wire = [c \in Conns |-> <<>>]
  /\ envelopes = <<>>
  /\ inbox = [j \in JobIds |-> <<>>]
  /\ dropped = [j \in JobIds |-> <<>>]
  /\ faults = 0
  /\ taken = 0
  /\ wstate = [r \in Runs |-> "none"]
  /\ emitted = [r \in Runs |-> <<>>]
  /\ raised = [r \in Runs |-> FALSE]
  /\ IndexInit
  /\ LimiterInit
  /\ CallsInit
  /\ SearchInit
  /\ StoreInit
  /\ RetryInit

Next ==
  \/ GwOpen /\ UNCHANGED engineVars
  \/ \E c \in Conns : GwClose(c) /\ UNCHANGED engineVars
  \/ \E c \in Conns, req \in Inbound, ok \in BOOLEAN :
       GwMessage(c, req, ok) /\ UNCHANGED engineVars
  \/ \E j \in JobIds, ok \in BOOLEAN :
       GwSubscribe(j, ok) /\ UNCHANGED engineVars
  \/ \E j \in JobIds : HandleJobResult(j) /\ UNCHANGED engineVars
  \/ \E ok \in BOOLEAN : WorkerReceive(ok) /\ UNCHANGED engineVars
  \/ \E r \in Runs, ok \in BOOLEAN :
       HandlerStream(r, ok) /\ UNCHANGED engineVars
  \/ \E r \in Runs, ok \in BOOLEAN :
       HandlerComplete(r, ok) /\ UNCHANGED engineVars
  \/ \E r \in Runs, ok \in BOOLEAN :
       HandlerThrow(r, ok) /\ UNCHANGED engineVars

Spec == Init /\ [][Next]_vars

\* jobs:pending is a pub/sub channel and every Worker instance subscribes to
\* it in start(): the broker hands a published envelope to each subscribed
\* instance. DeliverAgain(r) is the delivery of envelope r to one more
\* listener; the run it starts is a run like any other.
DeliverAgain(r) ==
  /\ r \in 1..Len(envelopes)
  /\ Len(envelopes) < MaxMsgs
  /\ envelopes' = Append(envelopes, envelopes[r])
  /\ UNCHANGED <<gatewayVars, inbox, dropped, faults, workerVars>>

\* the pipeline with more than one listener on jobs:pending, explored up to
\* MaxMsgs deliveries and with a broker that accepts every call (rejected
\* calls are explored in Spec)
NextFanOut ==
  \/ GwOpen /\ UNCHANGED engineVars
  \/ \E c \in Conns : GwClose(c) /\ UNCHANGED engineVars
  \/ \E c \in Conns, req \in Inbound :
       /\ GwMessage(c, req, TRUE)
       /\ Len(envelopes') <= MaxMsgs
       /\ UNCHANGED engineVars
  \/ \E j \in JobIds : GwSubscribe(j, TRUE) /\ UNCHANGED engineVars
  \/ \E j \in JobIds : HandleJobResult(j) /\ UNCHANGED engineVars
  \/ WorkerReceive(TRUE) /\ UNCHANGED engineVars
  \/ \E r \in Runs : HandlerStream(r, TRUE) /\ UNCHANGED engineVars
  \/ \E r \in Runs : HandlerComplete(r, TRUE) /\ UNCHANGED engineVars
  \/ \E r \in Runs : HandlerThrow(r, TRUE) /\ UNCHANGED engineVars
  \/ \E r \in Runs : DeliverAgain(r) /\ UNCHANGED engineVars

SpecFanOut == Init /\ [][NextFanOut]_vars

\* index jobs and searches on one project's vector store
NextIndex ==
  \/ \E k \in IndexJobs, n \in Sizes :
       IndexStart(k, n) /\ UNCHANGED <<pipelineVars, limiterVars, callsVars, searchVars, storeVars, retryVars>>
  \/ \E k \in IndexJobs :
       ClearMembers(k) /\ UNCHANGED <<pipelineVars, limiterVars, callsVars, searchVars, storeVars, retryVars>>
  \/ \E k \in IndexJobs :
       ClearExec(k) /\ UNCHANGED <<pipelineVars, limiterVars, callsVars, searchVars, storeVars, retryVars>>
  \/ \E k \in IndexJobs :
       PublishProgress(k) /\ UNCHANGED <<pipelineVars, limiterVars, callsVars, searchVars, storeVars, retryVars>>
  \/ \E k \in IndexJobs, ok \in BOOLEAN :
       GenerateEmbeddings(k, ok) /\ UNCHANGED <<pipelineVars, limiterVars, callsVars, searchVars, storeVars, retryVars>>
  \/ \E k \in IndexJobs :
       StoreChunks(k) /\ UNCHANGED <<pipelineVars, limiterVars, callsVars, searchVars, storeVars, retryVars>>
  \/ \E k \in IndexJobs :
       GetStats(k) /\ UNCHANGED <<pipelineVars, limiterVars, callsVars, searchVars, storeVars, retryVars>>
  \/ \E k \in IndexJobs :
       PublishComplete(k) /\ UNCHANGED <<pipelineVars, limiterVars, callsVars, searchVars, storeVars, retryVars>>
  \/ SearchMembers /\ UNCHANGED <<pipelineVars, limiterVars, callsVars, searchVars, storeVars, retryVars>>
  \/ SearchFetch /\ UNCHANGED <<pipelineVars, limiterVars, callsVars, searchVars, storeVars, retryVars>>

SpecIndex == Init /\ [][NextIndex]_vars

\* one limiter, its callers and its timer
NextLimiter ==
  \/ \E n \in Rpms :
       GetRateLimiter(n) /\ UNCHANGED <<pipelineVars, indexVars, callsVars, searchVars, storeVars, retryVars>>
  \/ Schedule /\ UNCHANGED <<pipelineVars, indexVars, callsVars, searchVars, storeVars, retryVars>>
  \/ \E late \in Lateness : Tick(late) /\ UNCHANGED <<pipelineVars, indexVars, callsVars, searchVars, storeVars, retryVars>>
  \/ \E d \in Waits : Wait(d) /\ UNCHANGED <<pipelineVars, indexVars, callsVars, searchVars, storeVars, retryVars>>

SpecLimiter == Init /\ [][NextLimiter]_vars

\* the limiter with the promises of its first MaxFutures tasks followed to
\* their settlement. The event loop runs a due timer callback, and a call
\* that was started returns or fails: weak fairness on Tick and on Settle.
NextFutures ==
  \/ \E n \in Rpms :
       GetRateLimiter(n) /\ UNCHANGED <<pipelineVars, indexVars, callsVars, searchVars, storeVars, retryVars>>
  \/ Schedule /\ issued < MaxFutures /\ UNCHANGED <<pipelineVars, indexVars, callsVars, searchVars, storeVars, retryVars>>
  \/ \E late \in Lateness : Tick(late) /\ UNCHANGED <<pipelineVars, indexVars, callsVars, searchVars, storeVars, retryVars>>
  \/ \E id \in Tasks, ok \in BOOLEAN :
       Settle(id, ok) /\ UNCHANGED <<pipelineVars, indexVars, callsVars, searchVars, storeVars, retryVars>>
  \/ \E d \in Waits : Wait(d) /\ UNCHANGED <<pipelineVars, indexVars, callsVars, searchVars, storeVars, retryVars>>

NextCalls ==
  \/ \E cmd \in Commands :
       HandlerStart(cmd) /\ UNCHANGED <<pipelineVars, indexVars, limiterVars, searchVars, storeVars, retryVars>>
  \/ \E ok \in BOOLEAN :
       Embed(ok) /\ UNCHANGED <<pipelineVars, indexVars, limiterVars, searchVars, storeVars, retryVars>>
  \/ PlanSchedule /\ UNCHANGED <<pipelineVars, indexVars, limiterVars, searchVars, storeVars, retryVars>>
  \/ PlanDispatch /\ UNCHANGED <<pipelineVars, indexVars, limiterVars, searchVars, storeVars, retryVars>>
  \/ \E ok \in BOOLEAN, e \in Errors, jitter \in Jitters :
       PlanReturn(ok, e, jitter)
         /\ UNCHANGED <<pipelineVars, indexVars, limiterVars, searchVars, storeVars, retryVars>>
  \/ Backoff /\ UNCHANGED <<pipelineVars, indexVars, limiterVars, searchVars, storeVars, retryVars>>
  \/ \E ok \in BOOLEAN :
       Analyze(ok) /\ UNCHANGED <<pipelineVars, indexVars, limiterVars, searchVars, storeVars, retryVars>>
  \/ StreamToken /\ UNCHANGED <<pipelineVars, indexVars, limiterVars, searchVars, storeVars, retryVars>>
  \/ StreamFail /\ UNCHANGED <<pipelineVars, indexVars, limiterVars, searchVars, storeVars, retryVars>>
  \/ StreamEnd /\ UNCHANGED <<pipelineVars, indexVars, limiterVars, searchVars, storeVars, retryVars>>

SpecCalls == Init /\ [][NextCalls]_vars

NextSearch ==
  \/ \E ix \in [Embeddings -> PerKind] :
       StoreEmbeddings(ix)
         /\ UNCHANGED <<pipelineVars, indexVars, limiterVars, callsVars, storeVars, retryVars>>
  \/ \E q \in Queries, limit \in Limits, o \in Orders :
       SearchSimilar(q, limit, o)
         /\ UNCHANGED <<pipelineVars, indexVars, limiterVars, callsVars, storeVars, retryVars>>

SpecSearch == Init /\ [][NextSearch]_vars

restOfStore ==
  <<pipelineVars, indexVars, limiterVars, callsVars, searchVars, retryVars>>

NextStore ==
  \/ \E id \in StChunks, embedding \in BOOLEAN, fail \in {"none", "hSet", "sAdd"} :
       StoreChunk(id, embedding, fail) /\ UNCHANGED restOfStore
  \/ \E ids \in SUBSET StChunks, embedded \in SUBSET StChunks,
        fail \in {"none", "exec"} :
       PutBatch(ids, embedded, fail) /\ UNCHANGED restOfStore
  \/ \E fail \in {"none", "sMembers", "hGetAll"} :
       SearchStore(fail) /\ UNCHANGED restOfStore
  \/ \E fail \in {"none", "sMembers", "exec"} :
       ClearProject(fail) /\ UNCHANGED restOfStore
  \/ \E fail \in {"none", "sMembers", "hGetAll"} :
       GetStoreStats(fail) /\ UNCHANGED restOfStore

SpecStore == Init /\ [][NextStore]_vars

restOfRetry == <<pipelineVars, indexVars, searchVars, storeVars>>

\* plan jobs and other callers of the limiter
NextRetry ==
  \/ \E n \in Rpms :
       GetRateLimiter(n) /\ UNCHANGED <<restOfRetry, callsVars, retryVars>>
  \/ Schedule /\ issued < MaxRetryTasks
       /\ UNCHANGED <<restOfRetry, callsVars, retryVars>>
  \/ HandlerStart("plan") /\ UNCHANGED <<restOfRetry, limiterVars, retryVars>>
  \/ Embed(TRUE) /\ UNCHANGED <<restOfRetry, limiterVars, retryVars>>
  \/ RetrySubmit /\ issued < MaxRetryTasks /\ UNCHANGED restOfRetry
  \/ \E late \in Lateness : RetryTick(late) /\ UNCHANGED restOfRetry
  \/ \E ok \in BOOLEAN, e \in RetryErrors :
       PlanReturn(ok, e, 0) /\ UNCHANGED <<restOfRetry, limiterVars, retryVars>>
  \/ Backoff /\ UNCHANGED <<restOfRetry, limiterVars, retryVars>>
  \/ StreamEnd /\ UNCHANGED <<restOfRetry, limiterVars, retryVars>>

SpecRetry == Init /\ [][NextRetry]_vars

SpecFutures ==
  /\ Init
  /\ [][NextFutures]_vars
  /\ WF_vars(\E late \in Lateness : Tick(late) /\ UNCHANGED <<pipelineVars, indexVars, callsVars, searchVars, storeVars, retryVars>>)
  /\ WF_vars(\E id \in Tasks, ok \in BOOLEAN :
               Settle(id, ok) /\ UNCHANGED <<pipelineVars, indexVars, callsVars, searchVars, storeVars, retryVars>>)

---------------------------------------------------------------------------
(* Properties *)

\* the handler run that was started with job j's envelope
HasRun(j) == \E r \in 1..Len(envelopes) : envelopes[r].jobId = j
RunOf(j) == CHOOSE r \in 1..Len(envelopes) : envelopes[r].jobId = j

\* job j's messages on connection c, in transmission order
WireOf(c, j) == Filter(wire[c], j, "jobId")

HasTerminal(s) == \E i \in 1..Len(s) : Terminal(s[i].type)

\* C1: every handler run publishes exactly one terminal result (complete or
\* error) on its job's channel, as the last result it publishes: none while
\* the run is in progress, exactly one once processJob has returned, and no
\* stream result after it. ("Publishes" is the Worker's redis.publish call.)
C1_OneTerminalLast ==
  \A r \in Runs :
    /\ wstate[r] = "none" => emitted[r] = <<>>
    /\ wstate[r] = "running" => Terminals(emitted[r]) = 0
    /\ wstate[r] = "done" => Terminals(emitted[r]) = 1
    /\ \A i \in 1..Len(emitted[r]) :
         /\ emitted[r][i].jobId = envelopes[r].jobId
         /\ Terminal(emitted[r][i].type) => i = Len(emitted[r])

\* C1 witness: a run has published MaxChunks stream results and then its
\* terminal result
C1_Witness ==
  \E r \in Runs :
    /\ wstate[r] = "done"
    /\ Len(emitted[r]) = MaxChunks + 1
    /\ Terminal(emitted[r][MaxChunks + 1].type)

\* C2: no result is published on results:<jobId> while the channel has no
\* subscriber, so every result the broker accepted reaches the Gateway, and
\* once a job has ended and its results are handled, the stream chunks on
\* the client's open connection are exactly those the Worker published.
C2_NoResultLost ==
  \A j \in JobIds :
    faults = 0 =>
      /\ dropped[j] = <<>>
      /\ (/\ HasRun(j) /\ wstate[RunOf(j)] = "done" /\ inbox[j] = <<>>
          /\ gpc[j] = "subscribed" /\ socket[OwnerOf(j)] = "open")
         => CountType(WireOf(OwnerOf(j), j), "stream")
              >= CountType(emitted[RunOf(j)], "stream")

\* C3: on every connection the messages of one job appear in the order in
\* which the Worker published their results, and the message of the job's
\* terminal result comes after all the others of that job.
C3_ForwardedInOrder ==
  \A c \in Conns, j \in JobIds :
    LET ms == WireOf(c, j) IN
      ms # <<>> =>
        /\ HasRun(j)
        /\ LET e == emitted[RunOf(j)]
               Pos(d) == CHOOSE p \in 1..Len(e) : e[p].data = d
           IN /\ \A i \in 1..Len(ms) : \E p \in 1..Len(e) : e[p].data = ms[i].data
              /\ \A i, k \in 1..Len(ms) :
                   i < k => Pos(ms[i].data) < Pos(ms[k].data)
              /\ \A i \in 1..Len(ms) :
                   Terminal(e[Pos(ms[i].data)].type) => i = Len(ms)

\* C3 witness: a connection has received two stream messages and then the
\* message of the terminal result of one job
C3_Witness ==
  \E c \in Conns, j \in JobIds :
    /\ Len(WireOf(c, j)) = MaxChunks + 1
    /\ WireOf(c, j)[MaxChunks + 1].type = "response"

\* C4: a run whose command handler threw has ended with exactly one error
\* result and no complete result, and the Worker's jobs:pending listener
\* still takes the next envelope.
C4_HandlerFailureIsOneError ==
  \A r \in Runs :
    raised[r] =>
      /\ wstate[r] = "done"
      /\ CountType(emitted[r], "error") = 1
      /\ CountType(emitted[r], "complete") = 0
      /\ taken < Len(envelopes) => ENABLED WorkerReceive(TRUE)
      /\ \A q \in Runs : wstate[q] = "running" => ENABLED HandlerComplete(q, TRUE)

\* C4 witness: a handler threw after publishing a stream result, and a job
\* delivered afterwards was processed to completion
C4_Witness ==
  \E r, q \in Runs :
    /\ r < q
    /\ raised[r] /\ Streams(r) > 0
    /\ wstate[q] = "done" /\ CountType(emitted[q], "complete") = 1

\* C5: when the Gateway has handled a job's terminal result and the job's
\* connection is open, the client has received exactly one terminal message
\* for the jobId: response after complete, error after error.
C5_TerminalMessageReachesClient ==
  \A j \in JobIds :
    (/\ gpc[j] = "subscribed" /\ HasTerminal(handled[j])
     /\ socket[OwnerOf(j)] = "open")
    => LET ms == WireOf(OwnerOf(j), j)
           t == handled[j][Len(handled[j])].type
       IN /\ CountType(ms, "response") + CountType(ms, "error") = 1
          /\ t = "error" => CountType(ms, "error") = 1
          /\ t = "complete" => CountType(ms, "response") = 1

\* C6: every message forwarded for a job is the translation of a result the
\* Gateway handled: stream -> stream, complete -> response, error -> error,
\* with the result's jobId and data.
C6_TranslationOfResult ==
  \A c \in Conns, j \in JobIds :
    \A i \in 1..Len(WireOf(c, j)) :
      \E p \in 1..Len(handled[j]) :
        WireOf(c, j)[i] = ToWSMessageFixed(handled[j][p])

\* C7: once the Gateway has handled a terminal result of a job it holds no
\* subscription to results:<jobId>.
C7_UnsubscribedAfterTerminal ==
  \A j \in JobIds : HasTerminal(handled[j]) => listener[j] = NoConn

C9_CloseDoesNotCancel ==
  /\ [][\A c \in Conns :
          (socket[c] = "open" /\ socket'[c] = "closed")
          => /\ c \notin connections'
             /\ UNCHANGED <<brokerVars, workerVars>>]_vars
  /\ [](\A r \in 1..Len(envelopes) :
          socket[envelopes[r].connectionId] = "closed"
          => /\ wstate[r] = "running" => ENABLED HandlerComplete(r, TRUE)
             /\ wstate[r] = "done" => Terminals(emitted[r]) = 1)

\* C9 witness: a connection is closed, the run of one of its jobs has ended
\* with a terminal result, and no message of the job got onto the connection
C9_Witness ==
  \E r \in 1..Len(envelopes) :
    LET c == envelopes[r].connectionId
        j == envelopes[r].jobId
    IN /\ socket[c] = "closed"
       /\ wstate[r] = "done"
       /\ Terminals(emitted[r]) = 1
       /\ Streams(r) > 0
       /\ WireOf(c, j) = <<>>
       /\ Len(handled[j]) = Len(emitted[r])

\* C10: for every inbound message that parsed and whose broker calls were
\* accepted, exactly one envelope for its jobId is on jobs:pending, with the
\* sender's connectionId; no other inbound message got the same jobId; and
\* the channel results:<jobId> was subscribed to exactly once, after the
\* envelope was published.
C10_OneEnvelopeOneSubscription ==
  /\ \A i \in 1..Len(inbound) :
       LET j == inbound[i].jobId IN
         j # UnknownJobId =>
           /\ \A k \in 1..Len(inbound) : inbound[k].jobId = j => k = i
           /\ gpc[j] \in {"published", "subscribed"} =>
                /\ Len(Filter(envelopes, j, "jobId")) = 1
                /\ Filter(envelopes, j, "jobId")[1].connectionId = inbound[i].conn
                /\ subscribeCalls[j] = (IF gpc[j] = "subscribed" THEN 1 ELSE 0)
           /\ gpc[j] = "failed" => subscribeCalls[j] = 0
  /\ \A j \in JobIds :
       subscribeCalls[j] > 0 => Len(Filter(envelopes, j, "jobId")) = 1

\* C10 witness: two connections have each sent a request and both jobs are
\* published and subscribed
C10_Witness ==
  /\ Len(envelopes) = MaxJobs
  /\ envelopes[1].connectionId # envelopes[MaxJobs].connectionId
  /\ \A j \in JobIds : gpc[j] = "subscribed"

\* C11: every step in which the Gateway fails to handle an inbound message
\* (unparseable or without request data, PUBLISH rejected, SUBSCRIBE
\* rejected) hands exactly one `error` message to the sender's connection
\* and nothing to any other; it publishes nothing in that step or later for
\* that message; and after a rejected PUBLISH the job has no envelope on
\* jobs:pending and no subscription, then and ever after.
C11_FailureIsOneError ==
  /\ [][/\ \A j \in JobIds :
             (gpc[j] # "failed" /\ gpc'[j] = "failed") =>
               LET i == CHOOSE i \in 1..Len(inbound') : inbound'[i].jobId = j
                   c == inbound'[i].conn
               IN /\ envelopes' = envelopes
                  /\ listener' = listener
                  /\ subscribeCalls' = subscribeCalls
                  /\ \A d \in Conns \ {c} : wire'[d] = wire[d]
                  /\ socket[c] = "open" =>
                       /\ Len(wire'[c]) = Len(wire[c]) + 1
                       /\ SubSeq(wire'[c], 1, Len(wire[c])) = wire[c]
                       /\ wire'[c][Len(wire'[c])].type = "error"
                  /\ gpc[j] = "none" =>
                       /\ socket[c] = "open"
                       /\ Filter(envelopes', j, "jobId") = <<>>
                       /\ listener'[j] = NoConn
        /\ (/\ Len(inbound') = Len(inbound) + 1
            /\ inbound'[Len(inbound')].jobId = UnknownJobId) =>
               LET c == inbound'[Len(inbound')].conn
               IN /\ envelopes' = envelopes
                  /\ listener' = listener
                  /\ \A d \in Conns \ {c} : wire'[d] = wire[d]
                  /\ Len(wire'[c]) = Len(wire[c]) + 1
                  /\ SubSeq(wire'[c], 1, Len(wire[c])) = wire[c]
                  /\ wire'[c][Len(wire'[c])].type = "error"
        /\ \A j \in JobIds :
             gpc[j] = "failed" =>
               /\ gpc'[j] = "failed"
               /\ Filter(envelopes', j, "jobId") = Filter(envelopes, j, "jobId")
               /\ listener'[j] = NoConn]_vars
  /\ [](\A j \in JobIds : Len(Filter(envelopes, j, "jobId")) <= 1)

\* C11 witness: one connection sent an unparseable message and a request
\* whose PUBLISH the broker rejected; it has received two error messages and
\* jobs:pending has no envelope
C11_Witness ==
  \E j \in JobIds :
    /\ gpc[j] = "failed"
    /\ envelopes = <<>>
    /\ Len(inbound) = 2
    /\ inbound[1].conn = inbound[2].conn
    /\ CountType(wire[OwnerOf(j)], "error") = 2

\* C12: a job whose command is none of index, plan, analyze-error never
\* enters a handler; its run is over as soon as the envelope is taken, with
\* exactly one result published: an error, and no stream or complete result.
C12_UnknownCommandIsOneError ==
  \A r \in 1..Len(envelopes) :
    envelopes[r].command \notin {"index", "plan", "analyze-error"} =>
      /\ wstate[r] \in {"none", "done"}
      /\ ~raised[r]
      /\ wstate[r] = "none" => emitted[r] = <<>>
      /\ wstate[r] = "done" =>
           /\ Len(emitted[r]) = 1
           /\ emitted[r][1].type = "error"
           /\ emitted[r][1].jobId = envelopes[r].jobId

\* C12 witness: a request without a command (the Gateway's placeholder
\* `unknown`) was taken by the Worker and answered with one error result,
\* which the Gateway has passed on
C12_Witness ==
  \E r \in 1..Len(envelopes) :
    /\ envelopes[r].command = "unknown"
    /\ wstate[r] = "done"
    /\ Len(emitted[r]) = 1
    /\ emitted[r][1].type = "error"
    /\ handled[envelopes[r].jobId] = emitted[r]

\* the handler runs that have started and not yet returned
ActiveRuns == {r \in Runs : wstate[r] = "running"}

\* C14: two index jobs of the same (userId, projectId) are never active at
\* the same time. (Every envelope carries userId 'user1' and projectId
\* 'project1', so any two index jobs are of the same project.)
C14_IndexJobsSerialized ==
  \A r, q \in ActiveRuns :
    (envelopes[r].command = "index" /\ envelopes[q].command = "index")
    => r = q

\* C16: while handler runs are in progress the Worker's jobs:pending
\* listener still takes the next envelope, and every run in progress can
\* publish its results and return, whatever the other runs are doing.
C16_SlowHandlerDoesNotBlock ==
  /\ (ActiveRuns # {} /\ jobsPending # <<>>) => ENABLED WorkerReceive(TRUE)
  /\ \A r \in ActiveRuns :
       /\ ENABLED HandlerComplete(r, TRUE)
       /\ Streams(r) < MaxChunks => ENABLED HandlerStream(r, TRUE)

\* C16 witness: the job delivered second has run to its complete result
\* while the handler of the job delivered first has not yet published
\* anything
C16_Witness ==
  \E r, q \in Runs :
    /\ r < q
    /\ wstate[r] = "running" /\ emitted[r] = <<>>
    /\ wstate[q] = "done" /\ CountType(emitted[q], "complete") = 1

\* C17: the number of handler runs active at once stays below a bound that
\* does not grow with the number of jobs delivered: with MaxMsgs jobs
\* delivered, fewer than MaxMsgs handlers are active.
C17_ActiveHandlersBounded == Cardinality(ActiveRuns) < MaxMsgs

\* C13: a jobId never gets results from two handler runs, also when its
\* envelope is delivered to more than one listener on jobs:pending.
C13_OneRunPerJob ==
  \A r, q \in 1..Len(envelopes) :
    (/\ envelopes[r].jobId = envelopes[q].jobId
     /\ emitted[r] # <<>> /\ emitted[q] # <<>>)
    => r = q

\* C15: a search made while an index job of the project is running reads
\* the whole chunk set of an index run (the prior one or the new one), never
\* an empty or partly repopulated index.
C15_SearchSeesWholeIndex ==
  \A i \in 1..Len(searchLog) :
    searchLog[i].during # {} => searchLog[i].seen \in searchLog[i].whole

C19_SpacedByInterval ==
  \A i \in 1..(Len(starts) - 1) :
    (starts[i + 1].at - starts[i].at) * requestsPerMinute >= MinuteMs

\* C20: a limiter with requestsPerMinute = N starts at most N tasks in any
\* window of 60000 ms: dispatches whose start times are less than 60000 ms
\* apart number at most N.
C20_AtMostNPerMinute ==
  \A i, j \in 1..Len(starts) :
    (i <= j /\ starts[j].at - starts[i].at < MinuteMs)
    => j - i + 1 <= requestsPerMinute


\* C21: the scheduler dispatches queued tasks in first-in-first-out order:
\* the i-th task dispatched is the i-th task submitted, and the tasks still
\* queued are the later submissions in their order of submission
C21_FifoDispatch ==
  /\ \A i \in 1..Len(starts) : starts[i].id = i
  /\ \A i \in 1..Len(queue) : queue[i] = Len(starts) + i

\* several tasks were dispatched while later ones were still queued
C21_Witness ==
  /\ Len(starts) >= 3
  /\ Len(queue) >= 2

\* C22: every submitted task is eventually dispatched, and dispatched once;
\* the queue is never non-empty without a timer; the promise of a submitted
\* task settles, and settles once, with the outcome of the task
C22_EveryTaskDispatchedOnce ==
  /\ [](queue # <<>> => timer # 0 /\ isRunning)
  /\ [](\A i, j \in 1..Len(starts) : starts[i].id = starts[j].id => i = j)
  /\ [](\A id \in Tasks :
          /\ future[id] = "pending" <=> \E i \in 1..Len(queue) : queue[i] = id
          /\ future[id] \in {"running", "resolved", "rejected"}
               <=> \E i \in 1..Len(starts) : starts[i].id = id)
  /\ [][\A id \in Tasks :
          future[id] \in {"resolved", "rejected"} => future'[id] = future[id]]_vars
  /\ \A id \in 1..MaxFutures :
       (future[id] = "pending") ~> (future[id] \in {"resolved", "rejected"})

\* every followed task was dispatched; one resolved and one rejected
C22_Witness ==
  /\ issued = MaxFutures
  /\ Len(starts) = MaxFutures
  /\ \E a, b \in Tasks : future[a] = "resolved" /\ future[b] = "rejected"
  /\ \A id \in 1..MaxFutures : future[id] \in {"resolved", "rejected"}

\* C23: a task whose promise rejected, or that is still running, does not
\* hold up the queue: a tick that finds a queued task and the interval
\* elapsed dispatches it whatever the state of the task before it, and a
\* settlement changes nothing of the scheduler
C23_FailedTaskDoesNotStall ==
  /\ [][(timer # 0 /\ now' # now /\ queue # <<>>
          /\ (lastRunAt = -1 \/ now' - lastRunAt >= intervalMs))
        => /\ Len(starts') = Len(starts) + 1
           /\ starts'[Len(starts')].id = Head(queue)]_vars
  /\ [][(future' # future /\ issued' = issued /\ starts' = starts)
        => /\ queue' = queue
           /\ timer' = timer
           /\ isRunning' = isRunning
           /\ lastRunAt' = lastRunAt]_vars

\* one task was dispatched after the one before it had rejected, another
\* while the one before it was still running
C23_Witness ==
  /\ \E i \in 1..Len(starts) : starts[i].prev = "rejected"
  /\ \E i \in 1..Len(starts) : starts[i].prev = "running"

\* C28: getRateLimiter returns one process-wide scheduler: the constructor
\* runs at most once, and a later call, whatever its options, leaves the
\* rate, the queue and the timer of the first instance as they are
C28_OneSchedulerPerProcess ==
  /\ [](constructed <= 1)
  /\ [](obtained > 0 => constructed = 1)
  /\ [][requestsPerMinute # 0
        => /\ requestsPerMinute' = requestsPerMinute
           /\ intervalMs' = intervalMs]_vars
  /\ [][obtained' # obtained
        => /\ queue' = queue
           /\ isRunning' = isRunning
           /\ timer' = timer
           /\ lastRunAt' = lastRunAt]_vars

\* a second call came while the first instance held queued tasks
C28_Witness ==
  /\ obtained = MaxGets
  /\ constructed = 1
  /\ queue # <<>>
  /\ Len(starts) >= 1


\* job j's results, in order
ResultsOf(j) == SelectSeq(hresults, LAMBDA r : r.job = j)

\* C24: the backoff wrapper does not wait and call again after an error
\* that is not a throttling (status 429) error, and it makes at most
\* retries + 1 calls
C24_OnlyThrottlingRetried ==
  /\ hjob.pc = "backoff" => hjob.err.status = 429
  /\ hjob.invocations <= retries + 1

\* C25: the delay before the next attempt is at least the seconds of the
\* retry-after header of the throttling error
C25_RetryAfterHonoured ==
  (hjob.pc = "backoff" /\ hjob.err.retryAfter # NoHint)
    => hjob.delay >= hjob.err.retryAfter * 1000

\* C26: a plan job whose generation call failed with status 429 on each of
\* its retries + 1 attempts ends with one result, an error carrying the
\* rate-limit guidance, a message no other failure of a job's calls
\* produces unless its text holds 429; and the Worker takes the next job
C26_ExhaustedIsGuidanceError ==
  /\ (hjob.pc = "failed" /\ hjob.cmd = "plan" /\ hjob.attempt = retries
        /\ hjob.err.status = 429)
     => /\ ResultsOf(hjobs) = <<[job |-> hjobs, type |-> "error",
                                 message |-> "rate-limit-guidance"]>>
        /\ hjob.invocations = retries + 1
        /\ hjobs < MaxCallJobs => ENABLED HandlerStart("plan")
  /\ \A i \in 1..Len(hresults) :
       hresults[i].message = "rate-limit-guidance"
         => /\ hresults[i].type = "error"
            /\ hresults[i].job = hjobs => IsRateLimit(hjob.err)

\* the second job exhausted its retries after the first had ended in an
\* error as well
C26_Witness ==
  /\ hjobs = MaxCallJobs
  /\ hjob.pc = "failed" /\ hjob.cmd = "plan" /\ hjob.attempt = retries
  /\ hjob.err.status = 429
  /\ ResultsOf(1) # <<>> /\ ResultsOf(1)[1].type = "error"
  /\ ResultsOf(hjobs) # <<>>

\* C27: every provider call of a job was started by a dispatch of the
\* scheduler
C27_AllCallsThroughScheduler ==
  \A c \in outbound : c.via = "scheduler"


\* chunks with embedding emb among the entries of s
Returned(s, emb) == Cardinality({i \in 1..Len(s) : s[i].embedding = emb})

\* the index of the example: one chunk each of [1,0], [0,1] and [0.7,0.7]
ExampleIndex ==
  [e \in Embeddings |-> IF e \in {<<10, 0>>, <<0, 10>>, <<7, 7>>} THEN 1 ELSE 0]

\* C29 as claimed: a search with limit k in an index of n embedded chunks
\* returns min(k, n) chunks
C29_ReturnsMinOfLimitAndSize ==
  sPc = "searched" => Len(sResult) = Least(sLimit, NumChunks(sIndex))

\* C29: a search with limit k in an index of n embedded chunks returns
\* min(k, maxResults, n) chunks of the index, each with its cosine
\* similarity to the query, and no chunk left out has a greater similarity
\* than a chunk returned; in the example it returns [1,0], then [0.7,0.7]
C29_ReturnsTopWithinCap ==
  sPc = "searched" =>
    /\ Len(sResult) = Least(Least(sLimit, maxResults), NumChunks(sIndex))
    /\ \A i \in 1..Len(sResult) :
         /\ sResult[i].embedding \in Embeddings
         /\ sResult[i].similarity
              = CosineSimilarity(sQuery, sResult[i].embedding)
    /\ \A e \in Embeddings :
         /\ Returned(sResult, e) <= sIndex[e]
         /\ Returned(sResult, e) < sIndex[e]
              => \A i \in 1..Len(sResult) :
                   ~Greater(CosineSimilarity(sQuery, e), sResult[i].similarity)
    /\ (sIndex = ExampleIndex /\ sQuery = <<10, 0>> /\ sLimit = 2)
         => /\ Len(sResult) = 2
            /\ sResult[1].embedding = <<10, 0>>
            /\ sResult[2].embedding = <<7, 7>>

\* the example search has run
C29_Witness ==
  /\ sPc = "searched"
  /\ sIndex = ExampleIndex
  /\ sQuery = <<10, 0>>
  /\ sLimit = 2
  /\ Len(sResult) = 2

\* C30: in what a search returns, each score is greater than or equal to the
\* score after it
C30_NonIncreasingScores ==
  sPc = "searched" =>
    \A i \in 1..(Len(sResult) - 1) :
      /\ sResult[i].similarity # NaN
      /\ sResult[i + 1].similarity # NaN
      /\ ~Greater(sResult[i + 1].similarity, sResult[i].similarity)


\* C31: two chunks of a result whose similarities to the query are equal
\* numbers come in the order in which they were inserted
C31_TiesInInsertionOrder ==
  sPc = "searched" =>
    \A i, j \in 1..Len(sResult) :
      (/\ i < j
       /\ sResult[i].similarity # NaN
       /\ sResult[j].similarity # NaN
       /\ ~Greater(sResult[i].similarity, sResult[j].similarity)
       /\ ~Greater(sResult[j].similarity, sResult[i].similarity))
      => InsertedAt(sResult[i].embedding) <= InsertedAt(sResult[j].embedding)


\* C32: after a clear whose storage calls succeeded, whatever the store
\* held, stats reports zero chunks and search finds nothing; a clear that
\* follows such a clear returns as well and changes nothing
C32_ClearIsIdempotentAndTotal ==
  /\ [][(stOps' # stOps /\ stLast'.op = "clear" /\ ~stLast'.failed)
        => /\ stLast'.outcome = "returned"
           /\ stSet' = {}
           /\ StatsReport' = 0
           /\ SearchReport' = {}]_vars
  /\ [][(stOps' # stOps /\ stLast.op = "clear" /\ ~stLast.failed
          /\ stLast'.op = "clear" /\ ~stLast'.failed)
        => /\ stLast'.outcome = "returned"
           /\ stLast'.count = 0
           /\ stHash' = stHash
           /\ stSet' = stSet]_vars
  /\ [](\A r \in {stLast} :
          (r.op \in {"stats", "search"} /\ ~r.failed
             /\ stPrev.op = "clear" /\ ~stPrev.failed)
          => r.outcome = "returned" /\ r.count = 0 /\ r.found = {})

\* stats answered right after a clear that removed every chunk of a full
\* index
C32_Witness ==
  /\ stLast.op = "stats" /\ ~stLast.failed /\ stLast.count = 0
  /\ stPrev.op = "clear" /\ ~stPrev.failed
  /\ stPrev.count = MaxStoreChunks

\* C33: a search of a project whose index set is empty, never filled or
\* cleared, returns an empty list when its read succeeds
C33_SearchOfEmptyProject ==
  [][(stOps' # stOps /\ stLast'.op = "search" /\ ~stLast'.failed
       /\ stSet = {})
     => stLast'.outcome = "returned" /\ stLast'.found = {}]_vars

\* a search returned nothing right after a clear that removed chunks
C33_Witness ==
  /\ stLast.op = "search" /\ ~stLast.failed
  /\ stLast.outcome = "returned" /\ stLast.found = {}
  /\ stPrev.op = "clear" /\ ~stPrev.failed /\ stPrev.count > 0

\* C34: every member of the index set has a hash with an embedding, and a
\* search returns only such chunks
C34_IndexedChunksHaveEmbedding ==
  /\ \A id \in stSet : stHash[id] = "embedded"
  /\ stLast.op = "search" => \A id \in stLast.found : stHash[id] = "embedded"

\* a batch with a chunk that had no embedding was stored, the chunk skipped
C34_Witness ==
  /\ stLast.op = "putBatch" /\ ~stLast.failed /\ stLast.count > 0
  /\ stSet # {}
  /\ stPrev.op = "put" /\ stPrev.outcome = "threw"

\* C35: an operation one of whose storage calls failed throws
C35_StorageFailurePropagates ==
  stLast.failed => stLast.outcome = "threw"


\* C36: the scheduler is idle (no timer, empty queue) or draining (timer
\* active): without a timer the queue is empty, the timer is active exactly
\* when the running flag is set, a schedule call on an idle scheduler makes
\* it draining, and a draining scheduler whose queue has emptied becomes
\* idle at its next tick
C36_IdleOrDraining ==
  /\ [](timer = 0 => queue = <<>>)
  /\ [](timer # 0 <=> isRunning)
  /\ [][(timer = 0 /\ issued' # issued) => (timer' # 0 /\ isRunning')]_vars
  /\ [][(timer # 0 /\ now' # now /\ queue = <<>>)
        => (timer' = 0 /\ ~isRunning' /\ queue' = <<>>)]_vars
  /\ [][(timer # 0 /\ timer' = 0) => queue = <<>>]_vars
  /\ (timer # 0 /\ queue = <<>>) ~> (timer = 0 \/ queue # <<>>)

\* the scheduler went from idle to draining, dispatched what was queued
\* and is idle again
C36_Witness ==
  /\ timer = 0
  /\ ~isRunning
  /\ queue = <<>>
  /\ Len(starts) >= 2

\* C37: without a retry-after header the wait before the next attempt,
\* after failure number k = attempt, is at least min(maxDelayMs,
\* baseDelayMs * 2^k), at most maxDelayMs, and exceeds the former by less
\* than 250 ms
C37_ExponentialBackoffCapped ==
  (hjob.pc = "backoff" /\ hjob.err.retryAfter = NoHint)
    => /\ hjob.delay >= Least(maxDelayMs, baseDelayMs * Pow2(hjob.attempt))
       /\ hjob.delay <= maxDelayMs
       /\ hjob.delay
            <= Least(maxDelayMs, baseDelayMs * Pow2(hjob.attempt)) + MaxJitterMs

\* the wrapper waits before its last attempt: the exponential delay has
\* reached the cap and the jitter is cut off
C37_Witness ==
  /\ hjob.pc = "backoff"
  /\ hjob.err.retryAfter = NoHint
  /\ hjob.attempt = retries - 1
  /\ hjob.delay = maxDelayMs
  /\ hjob.invocations = retries


\* C38: a plan or analyze-error job whose generation stream failed while it
\* was iterated ends with the text of the error as its last stream result,
\* then one complete result, and no error result
C38_StreamFailureEndsComplete ==
  (hjob.streamErr /\ hjob.pc \in {"done", "failed"})
    => /\ hjob.pc = "done"
       /\ hjob.cmd \in {"plan", "analyze-error"}
       /\ \E n \in 2..(MaxTokens + 2) :
            /\ Len(ResultsOf(hjobs)) = n
            /\ ResultsOf(hjobs)[n].type = "complete"
            /\ ResultsOf(hjobs)[n - 1] = [job |-> hjobs, type |-> "stream",
                                          message |-> "stream-error-text"]
            /\ \A i \in 1..(n - 1) : ResultsOf(hjobs)[i].type = "stream"

\* the stream of a plan job failed after a token of it had been published
C38_Witness ==
  /\ hjob.streamErr
  /\ hjob.pc = "done"
  /\ hjob.cmd = "plan"
  /\ Len(ResultsOf(hjobs)) >= 3


\* C39: a message that carries the id of a job is only ever transmitted on
\* the connection whose message created that job
C39_ResultsOnlyToSubmitter ==
  \A c \in Conns : \A i \in 1..Len(wire[c]) :
    wire[c][i].jobId # UnknownJobId
      => \E k \in 1..Len(inbound) :
           /\ inbound[k].jobId = wire[c][i].jobId
           /\ inbound[k].conn = c

\* two connections each submitted a job and each received a result of its
\* own job while both jobs had been published
C39_Witness ==
  /\ \A c \in Conns : \E i \in 1..Len(wire[c]) : wire[c][i].jobId # UnknownJobId
  /\ \E c, d \in Conns :
       /\ c # d
       /\ \E i \in 1..Len(wire[c]), k \in 1..Len(wire[d]) :
            /\ wire[c][i].jobId # UnknownJobId
            /\ wire[d][k].jobId # UnknownJobId
            /\ wire[c][i].jobId # wire[d][k].jobId


\* C40: every attempt of the backoff wrapper is a new task appended to the
\* limiter's queue; it is dispatched after every task it found queued, and
\* not sooner than intervalMs after the dispatch before it
C40_RetryQueuesAtTail ==
  /\ [][(hjob.pc = "generate" /\ hjob'.pc = "queued")
        => /\ issued' = issued + 1
           /\ queue' = Append(queue, issued')
           /\ Len(hsubmits') = Len(hsubmits) + 1
           /\ hsubmits'[Len(hsubmits')].task = issued']_vars
  /\ [](\A i, j \in 1..Len(hsubmits) :
          hsubmits[i].task = hsubmits[j].task => i = j)
  /\ [](\A i \in 1..Len(hsubmits), k \in 1..Len(starts) :
          starts[k].id = hsubmits[i].task
            => /\ \A a \in 1..Len(hsubmits[i].ahead) :
                    \E m \in 1..(k - 1) : starts[m].id = hsubmits[i].ahead[a]
               /\ k > 1 => starts[k].at - starts[k - 1].at >= intervalMs)
  /\ [](\A c \in outbound :
          c.kind = "generation" =>
            \E i \in 1..Len(hsubmits), k \in 1..Len(starts) :
              starts[k].id = hsubmits[i].task)

\* a retry found tasks queued and was dispatched after them
C40_Witness ==
  \E i \in 1..Len(hsubmits) :
    /\ hsubmits[i].attempt >= 1
    /\ hsubmits[i].ahead # <<>>
    /\ \E k \in 1..Len(starts) : starts[k].id = hsubmits[i].task

====
